---- MODULE Spec2Model ----
(***************************************************************************)
(* Verification model of the event poster analyzer                         *)
(* (src/investigations/poster_analyzer).                                   *)
(*                                                                         *)
(* Spec       one Canonical Event Record: construction by _parse_response, *)
(*            then enrichment calls (_enhance_with_web_scraping ->         *)
(*            enhance_event_data -> _merge_scraped_data) and quality       *)
(*            passes (_assess_data_quality).                               *)
(* BatchSpec  analyze_multiple_posters on the asyncio event loop: the      *)
(*            batch gate, the per-poster pipelines, the fetch gate and the *)
(*            page fetches of each enrichment call.                        *)
(* PipelineSpec  one PosterAnalyzer and one poster: construction, the      *)
(*            phases of analyze_poster, and a second run on the same       *)
(*            inputs.                                                      *)
(* FetcherSpec  one call of _enhance_with_web_scraping on the event loop:  *)
(*            the session of the WebScraper, the URL filter, the page      *)
(*            fetches and the return.                                      *)
(*                                                                         *)
(* Optional[T] values are sequences of length at most one: None is <<>>.   *)
(* Confidence and quality are exact fractions with denominator ConfScale.  *)
(* Prices are amounts in cents.                                            *)
(***************************************************************************)
EXTENDS Integers, Sequences, FiniteSets, TLC

VARIABLES
    \* one record (Spec)
    event_data,     \* Optional record held by the caller of the pipeline steps
    last_call,      \* which call produced event_data
    last_count,     \* len(scraped_data) of the last enrichment call
    merge_errors,   \* "Error merging scraped data" lines of the last enrichment call
    calls,          \* number of enrichment calls / quality passes made so far
    claude_reply,   \* the reply text _parse_response was last called with
    \* one batch on the event loop (BatchSpec)
    max_concurrent,         \* argument of analyze_multiple_posters
    scraper_max_concurrent, \* WebScraper.max_concurrent
    enable_web_scraping,    \* PosterAnalyzer.enable_web_scraping
    batch,          \* analyze_multiple_posters: "running", "returned" or "raised"
    pc,             \* per poster: where its analyze_with_semaphore task stands
    result,         \* per poster: what gather holds for its task
    semaphore,      \* the batch gate: [value, waiters]
    fetch,          \* per poster: the _scrape_single_url tasks of its enrichment call
    fetch_semaphore,\* per poster: the fetch gate of its enrichment call
    hung,           \* the poster whose model call never returns, or 0
    returned_signals, \* per poster: URLs of the signals its _scrape_urls call returned
    event_data_list,\* what analyze_multiple_posters returns
    exported_files, \* analyze_batch: the <stem>_analysis.json files written
    \* one analyzer and one poster (PipelineSpec)
    analyzer,       \* PosterAnalyzer(...): "none", "ready" or "raised"
    validation,     \* validate_api_key(): "pending", "ok" or "failed"
    poster,         \* what the collaborators deliver for the poster
    stage,          \* where analyze_poster stands
    trace,          \* the phases analyze_poster has run, in order
    local_evidence, \* qr_codes, urls and valid_urls of analyze_poster
    poster_record,  \* event_data of analyze_poster
    run,            \* first or second analysis of the poster
    first_result,   \* what the first analysis returned
    \* one enrichment call (FetcherSpec)
    enrich_urls,    \* the urls argument of _enhance_with_web_scraping
    enrich_pc,      \* where the call stands
    session,        \* WebScraper.session: "none", "open" or "closed"
    scrape_tasks,   \* the _scrape_single_url tasks of the call
    scrape_semaphore, \* the fetch gate of the call
    get_calls,      \* the URLs session.get has been called with
    get_sessions,   \* the states the session was in at those calls
    enrich_returns  \* how the call ended and which signals were merged

recordVars == <<event_data, last_call, last_count, merge_errors, calls, claude_reply>>

batchVars == <<max_concurrent, scraper_max_concurrent, enable_web_scraping, batch, pc,
               result, semaphore, fetch, fetch_semaphore, hung, returned_signals,
               event_data_list, exported_files>>

pipelineVars == <<analyzer, validation, poster, stage, trace, local_evidence,
                  poster_record, run, first_result>>

fetcherVars == <<enrich_urls, enrich_pc, session, scrape_tasks, scrape_semaphore,
                 get_calls, get_sessions, enrich_returns>>

vars == <<recordVars, batchVars, pipelineVars, fetcherVars>>

---------------------------------------------------------------------------
(* Bounds *)

\* enrichment calls plus quality passes applied to one record
MaxCalls == 2

\* length of the signal lists that are merged a second time
MaxRemerge == 3

\* posters in one batch
NumPosters == 3

\* largest concurrency limit a batch is run with
MaxGate == 2

\* signals merged by one enrichment call
MaxSignals == 5

RECURSIVE Pow2(_)
Pow2(n) == IF n = 0 THEN 1 ELSE 2 * Pow2(n - 1)

\* denominator of confidence values: twentieths (bonus steps) and sevenths
\* (quality factors), halved at most once per quality pass
ConfScale == 140 * Pow2(MaxCalls)

---------------------------------------------------------------------------
(* Optional values and Python truthiness *)

Nil == <<>>

Some(v) == <<v>>

\* `not x` is False for a str: None and "" are both falsy
TruthyStr(opt) == opt # Nil /\ opt[1] # ""

\* `not x` for a float: None and 0.0 are both falsy
TruthyNum(opt) == opt # Nil /\ opt[1] # 0

Min(a, b) == IF a <= b THEN a ELSE b

\* an address string is the pair <<street, number>>; "" is <<>>
TruthyAddr(opt) == opt # Nil /\ opt[1] # <<>>

Contains(seq, x) == \E i \in 1..Len(seq) : seq[i] = x

---------------------------------------------------------------------------
(* Data model: data_models.py *)

\* EventKategorie.ANDERE, the default category
ANDERE == "andere"

Digits == {"0", "1", "2", "3", "4", "5", "6", "7", "8", "9"}

\* str.isdigit(): non-empty and every character a digit
IsDigitStr(s) == Len(s) > 0 /\ \A i \in 1..Len(s) : s[i] \in Digits

\* Ort.validate_plz: a falsy value (None, "") passes, anything else must be
\* five digits.  A postal code is its sequence of characters.
validate_plz(v) == (v # Nil /\ v[1] # <<>>) => (IsDigitStr(v[1]) /\ Len(v[1]) = 5)

\* Termine.validate_end_after_start
validate_end_after_start(beginn, ende) ==
    ~(ende # Nil /\ beginn # Nil /\ ende[1] < beginn[1])

\* Preise.validate_positive_price
validate_positive_price(v) == ~(v # Nil /\ v[1] < 0)

\* Metadaten.vertrauenswuerdigkeit: Field(0.0, ge=0.0, le=1.0)
validate_vertrauenswuerdigkeit(v) == v >= 0 /\ v <= ConfScale

\* EventData.from_dict: the pydantic validators of the nested models
from_dict_ok(d) ==
    /\ d.veranstaltungsname # Nil
    /\ validate_plz(d.ort.postleitzahl)
    /\ validate_end_after_start(d.termine.beginn, d.termine.ende)
    /\ validate_positive_price(d.preise.preis)
    /\ validate_vertrauenswuerdigkeit(d.metadaten.vertrauenswuerdigkeit)

\* EventData.from_dict: the record built from a decoded object that validates
\* (veranstaltungsname is a required str, the other fields keep their values)
from_dict(d) == [d EXCEPT !.veranstaltungsname = d.veranstaltungsname[1]]

---------------------------------------------------------------------------
(* Inputs: what the collaborators (model, decoder, web pages) can deliver *)

UrlA == "https://a.de"
UrlB == "https://b.com"

PLZ_Muenchen == <<"8", "0", "3", "3", "1">>
PLZ_Berlin == <<"1", "0", "1", "1", "5">>
PLZ_FourDigits == <<"8", "0", "3", "3">>

Fifth(n) == (n * ConfScale) \div 20

LocationChoices ==
    { [veranstaltungsort |-> Nil, adresse |-> Nil, stadt |-> Nil, postleitzahl |-> Nil],
      [veranstaltungsort |-> Some("Olympiahalle"), adresse |-> Nil, stadt |-> Nil,
       postleitzahl |-> Nil],
      [veranstaltungsort |-> Nil, adresse |-> Some(<<"Hauptstrasse", "1">>),
       stadt |-> Some("Berlin"), postleitzahl |-> Some(PLZ_Berlin)],
      [veranstaltungsort |-> Nil, adresse |-> Nil, stadt |-> Some("Berlin"),
       postleitzahl |-> Some(PLZ_Berlin)],
      [veranstaltungsort |-> Nil, adresse |-> Nil, stadt |-> Nil,
       postleitzahl |-> Some(PLZ_FourDigits)] }

PriceChoices ==
    { [kostenlos |-> FALSE, preis |-> Nil],
      [kostenlos |-> TRUE, preis |-> Nil],
      [kostenlos |-> FALSE, preis |-> Some(2500)],
      [kostenlos |-> FALSE, preis |-> Some(0)],
      [kostenlos |-> FALSE, preis |-> Some(0 - 100)] }

KontaktChoices ==
    { [telefon |-> Nil, email |-> Nil, website |-> Nil],
      [telefon |-> Nil, email |-> Some(""), website |-> Nil],
      [telefon |-> Some("030 123456"), email |-> Some("poster@event.de"),
       website |-> Some("https://event.de")] }

ConfidenceChoices == { 0, Fifth(17), Fifth(20), Fifth(30) }

NameChoices == { Nil, Some(""), Some("Rock Concert") }

NoLocation == [veranstaltungsort |-> Nil, adresse |-> Nil, stadt |-> Nil, postleitzahl |-> Nil]

NoKontakt == [telefon |-> Nil, email |-> Nil, website |-> Nil]

NoPrice == [kostenlos |-> FALSE, preis |-> Nil]

\* beginn, ende, kategorie, and the ticket links and sources the model names
ExtraChoices ==
    { [termine |-> [beginn |-> Nil, ende |-> Nil], kategorie |-> ANDERE, links |-> <<>>],
      [termine |-> [beginn |-> Some(20), ende |-> Some(23)], kategorie |-> "musik",
       links |-> <<UrlA>>],
      [termine |-> [beginn |-> Some(20), ende |-> Some(19)], kategorie |-> "musik",
       links |-> <<>>] }

NoExtra == [termine |-> [beginn |-> Nil, ende |-> Nil], kategorie |-> ANDERE, links |-> <<>>]

\* a reply whose postal code is the empty string
EmptyPostalCode ==
    [veranstaltungsort |-> Nil, adresse |-> Nil, stadt |-> Nil, postleitzahl |-> Some(<<>>)]

\* a reply that names the same source twice
RepeatedSource ==
    [termine |-> [beginn |-> Nil, ende |-> Nil], kategorie |-> ANDERE,
     links |-> <<UrlA, UrlA>>]

ReplyObject(n, o, x, p, c, v) ==
    [veranstaltungsname |-> n, ort |-> o, termine |-> x.termine, preise |-> p,
     kategorie |-> x.kategorie,
     metadaten |-> [ticketinfo |-> [online_links |-> x.links], kontakt |-> c,
                    quellen |-> x.links, vertrauenswuerdigkeit |-> v],
     erkannte_links |-> <<>>, erkannte_qr_codes |-> <<>>]

\* a reply in which the model wrote erkannte_links and erkannte_qr_codes itself
ReplyWithEvidenceKeys ==
    [ReplyObject(Some("Rock Concert"), NoLocation, NoExtra, NoPrice, NoKontakt, Fifth(17))
        EXCEPT !.erkannte_links = <<UrlB>>, !.erkannte_qr_codes = <<UrlB>>]

\* the JSON objects a model reply can decode to: every pricing and contact
\* block on an otherwise bare poster, every location and timing block on a
\* poster without pricing and contact, objects without a usable name,
\* objects whose source list repeats an entry or whose postal code is "", and
\* an object in which the model itself wrote the two evidence keys
ReplyObjects ==
    { ReplyObject(Some("Rock Concert"), NoLocation, x, p, c, v) :
        x \in { y \in ExtraChoices : y.termine.beginn = Nil },
        p \in PriceChoices, c \in KontaktChoices, v \in ConfidenceChoices }
    \cup { ReplyObject(Some("Rock Concert"), o, x, NoPrice, NoKontakt, v) :
        o \in LocationChoices, x \in ExtraChoices, v \in ConfidenceChoices }
    \cup { ReplyObject(n, NoLocation, x, NoPrice, NoKontakt, 0) :
        n \in NameChoices, x \in ExtraChoices }
    \cup { ReplyObject(Some("Rock Concert"), NoLocation, RepeatedSource, NoPrice,
                       NoKontakt, Fifth(17)),
           ReplyObject(Some("Rock Concert"), EmptyPostalCode, NoExtra, NoPrice,
                       NoKontakt, Fifth(17)),
           ReplyWithEvidenceKeys }

\* reply texts: no '{'..'}' slice, a slice that is not JSON, or a JSON object
ReplyTexts ==
    { [kind |-> "no_json", obj |-> Nil], [kind |-> "bad_json", obj |-> Nil] }
    \cup { [kind |-> "object", obj |-> Some(d)] : d \in ReplyObjects }

\* no reply: the extractor is not in a call
NoReply == [kind |-> "none", obj |-> Nil]

\* what the Local Signal Detector hands to the Primary Extractor
DetectedChoices ==
    { [qr_codes |-> <<>>, urls |-> <<>>],
      [qr_codes |-> <<UrlA>>, urls |-> <<UrlA>>] }

---------------------------------------------------------------------------
(* Primary Extractor: claude_client.py *)

\* what a call ends with: a returned value or a raised exception
Returned(value) == [kind |-> "return", value |-> value, exc |-> "none"]
Raised(exc) == [kind |-> "raise", value |-> Nil, exc |-> exc]

\* only `'veranstaltungsname' not in event_dict`
NameKeyMissing(event_dict) == event_dict.veranstaltungsname = Nil

\* 'veranstaltungsname' not in event_dict or not event_dict['veranstaltungsname']
NameMissing(event_dict) == ~TruthyStr(event_dict.veranstaltungsname)

\* the try block of _parse_response: find/rfind, json.loads, the evidence
\* overrides, the name test and EventData.from_dict
parse_response_try(response_text, qr_codes, urls) ==
    IF response_text.kind = "no_json" THEN Returned(Nil)
    ELSE IF response_text.kind = "bad_json" THEN Raised("JSONDecodeError")
    ELSE
        LET decoded == response_text.obj[1]
            with_qr == IF qr_codes # <<>>
                       THEN [decoded EXCEPT !.erkannte_qr_codes = qr_codes]
                       ELSE decoded
            event_dict == IF urls # <<>>
                          THEN [with_qr EXCEPT !.erkannte_links = urls]
                          ELSE with_qr
        IN  IF NameMissing(event_dict) THEN Returned(Nil)
            ELSE IF ~from_dict_ok(event_dict) THEN Raised("ValidationError")
            ELSE Returned(Some(from_dict(event_dict)))

\* a handler list that ends after `except json.JSONDecodeError`
CaughtIfJsonError(exc) == exc = "JSONDecodeError"

\* the handlers of _parse_response: `except json.JSONDecodeError` and
\* `except Exception`
CaughtByParse(exc) == TRUE

\* ClaudeImageAnalyzer._parse_response: how the call ends, with None (Nil) or
\* the validated record as its value
_parse_response(response_text, qr_codes, urls) ==
    LET attempt == parse_response_try(response_text, qr_codes, urls)
    IN  IF attempt.kind = "raise" /\ CaughtByParse(attempt.exc)
        THEN Returned(Nil)
        ELSE attempt

---------------------------------------------------------------------------
(* Scraped Page Signals: the dictionaries _scrape_single_url returns.       *)
(* text_content is described by what the merge rules' searches can find in *)
(* it; `cased` says whether its letters still have their written case, and *)
(* `is_none` that the dictionary holds None where the text should be.      *)

TextA ==
    [cased |-> TRUE,
     price |-> Some([euros |-> 35, cents |-> 50]),
     address |-> Some([street |-> "Musterstrasse", number |-> "42",
                       plz |-> PLZ_Muenchen, city |-> "Muenchen"]),
     email |-> Some("info@test.de"),
     phone |-> Some("+49 89 1234567"),
     tickets |-> TRUE,
     is_none |-> FALSE]

TextB ==
    [cased |-> TRUE,
     price |-> Some([euros |-> 0, cents |-> 0]),
     address |-> Nil,
     email |-> Some("kontakt@b.com"),
     phone |-> Nil,
     tickets |-> FALSE,
     is_none |-> FALSE]

Signals == { [url |-> UrlA, text_content |-> TextA],
             [url |-> UrlB, text_content |-> TextB] }

RECURSIVE SeqsUpTo(_, _)
SeqsUpTo(S, n) ==
    IF n = 0 THEN { <<>> }
    ELSE LET shorter == SeqsUpTo(S, n - 1)
         IN  shorter \cup { Append(q, x) : q \in { r \in shorter : Len(r) = n - 1 }, x \in S }

SignalLists == SeqsUpTo(Signals, MaxSignals)

\* a dictionary whose text_content is None
SignalNoText ==
    [url |-> "https://www.c.de",
     text_content |-> [cased |-> FALSE, price |-> Nil, address |-> Nil, email |-> Nil,
                       phone |-> Nil, tickets |-> FALSE, is_none |-> TRUE]]

\* signal lists that hold such a dictionary before, between or after pages
\* that were scraped
FailingSignalLists ==
    { <<SignalNoText>> }
    \cup { <<SignalNoText, later>> : later \in Signals }
    \cup { <<pair[1], SignalNoText, pair[2]>> :
               pair \in { q \in Signals \X Signals : q[1] # q[2] } }

---------------------------------------------------------------------------
(* Merge Engine: web_scraper.py *)

\* str.lower()
Lower(text) == [text EXCEPT !.cased = FALSE]

\* re.search(r'(\d+(?:,\d+)?)\s*€|euro?\s*(\d+(?:,\d+)?)', text): digits and
\* the currency sign are the same in either case
PriceSearch(text) == text.price

\* float(price_str.replace(',', '.')), in cents
PriceFloat(m) == m.euros * 100 + m.cents

\* re.search of the German address pattern: street and city must start with
\* a capital letter [A-ZÄÖÜ], and no flag makes the search ignore case
AddressSearch(text) == IF text.cased THEN text.address ELSE Nil

\* re.search of the e-mail pattern
EmailSearch(text) == text.email

\* re.search of the phone pattern
PhoneSearch(text) == text.phone

\* any(keyword in text for keyword in event_keywords['tickets'])
TicketKeywordFound(text) == text.tickets

\* the guard of the price rule: `not preis and not kostenlos`
PriceMissing(ed) == ~TruthyNum(ed.preise.preis) /\ ~ed.preise.kostenlos

\* the guards of the contact rules: `not email`, `not telefon`, `not website`
EmailMissing(ed) == ~TruthyStr(ed.metadaten.kontakt.email)

PhoneMissing(ed) == ~TruthyStr(ed.metadaten.kontakt.telefon)

WebsiteMissing(ed) == ~TruthyStr(ed.metadaten.kontakt.website)

\* the guard of the address rule: `not adresse`
AddressMissing(ed) == ~TruthyAddr(ed.ort.adresse)

\* WebScraper._merge_event_info
_merge_event_info(event_data_in, scraped) ==
    LET text == Lower(scraped.text_content)
        price_match == PriceSearch(text)
        priced ==
            IF PriceMissing(event_data_in) /\ price_match # Nil
            THEN [event_data_in EXCEPT !.preise.preis = Some(PriceFloat(price_match[1])),
                                       !.preise.kostenlos = FALSE]
            ELSE event_data_in
        address_match == AddressSearch(text)
    IN  IF AddressMissing(priced) /\ address_match # Nil
        THEN [priced EXCEPT
                !.ort.adresse = Some(<<address_match[1].street, address_match[1].number>>),
                !.ort.postleitzahl = Some(address_match[1].plz),
                !.ort.stadt = Some(address_match[1].city)]
        ELSE priced

\* WebScraper._merge_contact_info
_merge_contact_info(event_data_in, scraped) ==
    LET text == scraped.text_content
        email_match == EmailSearch(text)
        with_email ==
            IF EmailMissing(event_data_in) /\ email_match # Nil
            THEN [event_data_in EXCEPT !.metadaten.kontakt.email = email_match]
            ELSE event_data_in
        phone_match == PhoneSearch(text)
        with_phone ==
            IF PhoneMissing(with_email) /\ phone_match # Nil
            THEN [with_email EXCEPT !.metadaten.kontakt.telefon = phone_match]
            ELSE with_email
    IN  IF WebsiteMissing(with_phone)
        THEN [with_phone EXCEPT !.metadaten.kontakt.website = Some(scraped.url)]
        ELSE with_phone

\* bug: the URL is appended without looking for it in the list
AppendAlways(lst, x) == Append(lst, x)

\* `x not in lst` followed by lst.append(x)
AppendIfAbsent(lst, x) == IF Contains(lst, x) THEN lst ELSE Append(lst, x)

\* WebScraper._merge_ticket_info
_merge_ticket_info(event_data_in, scraped) ==
    LET text == Lower(scraped.text_content)
    IN  IF TicketKeywordFound(text)
        THEN [event_data_in EXCEPT !.metadaten.ticketinfo.online_links =
                                        AppendIfAbsent(@, scraped.url)]
        ELSE event_data_in

\* WebScraper._merge_artist_info: pass
_merge_artist_info(event_data_in, scraped) == event_data_in

\* the body of the loop of _merge_scraped_data for one signal
MergeOne(enhanced, data) ==
    LET merged == _merge_artist_info(
                      _merge_ticket_info(
                          _merge_contact_info(
                              _merge_event_info(enhanced, data), data), data), data)
    IN  [merged EXCEPT !.metadaten.quellen = AppendIfAbsent(@, data.url)]

\* TRUE of every record; evaluating it fixes the record's value, as the loop does
\* before it takes the next signal
IsRecord(r) == DOMAIN r # {}

\* the body of the loop raises for this signal: scraped.get('text_content', '')
\* is None and `.lower()`, the first statement of _merge_event_info, raises
\* AttributeError before anything is assigned
MergeRaises(data) == data.text_content.is_none

RECURSIVE MergeAll(_, _)

\* a try that encloses the whole loop: the first error ends the merging
StopAfterError(enhanced, rest) == enhanced

\* `except Exception as e: logger.error(...)` inside the loop: the loop goes
\* on with the next signal
ContinueAfterError(enhanced, rest) == MergeAll(enhanced, rest)

\* `for data in scraped_data:` of _merge_scraped_data
MergeAll(enhanced, scraped_data) ==
    IF IsRecord(enhanced) /\ scraped_data # <<>>
    THEN IF MergeRaises(Head(scraped_data))
         THEN ContinueAfterError(enhanced, Tail(scraped_data))
         ELSE MergeAll(MergeOne(enhanced, Head(scraped_data)), Tail(scraped_data))
    ELSE enhanced

\* bug: the bonus is not capped at 0.2
SourceBonusUncapped(n) == n * (ConfScale \div 20)

\* source_bonus = min(0.2, len(scraped_data) * 0.05)
SourceBonus(n) == Min(ConfScale \div 5, n * (ConfScale \div 20))

\* bug: the sum is not clamped to 1.0
BoostedConfidenceUnclamped(original_confidence, n) ==
    original_confidence + SourceBonus(n)

\* min(1.0, original_confidence + source_bonus)
BoostedConfidence(original_confidence, n) ==
    Min(ConfScale, original_confidence + SourceBonus(n))

\* WebScraper._merge_scraped_data: works on a deep copy, returns the copy
_merge_scraped_data(event_data_in, scraped_data) ==
    LET enhanced == MergeAll(event_data_in, scraped_data)
    IN  IF scraped_data # <<>>
        THEN [enhanced EXCEPT !.metadaten.vertrauenswuerdigkeit =
                              BoostedConfidence(@, Len(scraped_data))]
        ELSE enhanced

---------------------------------------------------------------------------
(* Orchestrator, per record: analyzer.py *)

\* bug: no copy is made, the merge mutates the caller's object
CallerObjectAliased(event_data_in, enhanced) == enhanced

\* event_data.copy(deep=True): the merge mutates the copy, so the object the
\* caller passed in is afterwards what it was before
CallerObjectAfterMerge(event_data_in, enhanced) == event_data_in

\* where the enrichment phase can raise: nowhere, while the scraper is built
\* and its session opened, while the pages are fetched, or inside the merge
\* after the copy has been changed
Failures == { "none", "construct", "fetch", "merge" }

\* PosterAnalyzer._enhance_with_web_scraping around
\* WebScraper.enhance_event_data: the enhanced copy, or on any exception the
\* caller's own object
_enhance_with_web_scraping(event_data_in, urls, scraped_data, failure) ==
    IF failure \in { "construct", "fetch" } THEN event_data_in
    ELSE IF urls = <<>> THEN event_data_in
    ELSE LET enhanced == _merge_scraped_data(event_data_in, scraped_data)
         IN  IF failure = "merge"
             THEN CallerObjectAfterMerge(event_data_in, enhanced)
             ELSE enhanced

\* the quality_factors list of _assess_data_quality
QualityFactors(ed) ==
    (IF ed.veranstaltungsname # "" THEN { "event_name" } ELSE {})
    \cup (IF TruthyStr(ed.ort.veranstaltungsort) \/ TruthyAddr(ed.ort.adresse)
          THEN { "location" } ELSE {})
    \cup (IF ed.termine.beginn # Nil THEN { "datetime" } ELSE {})
    \cup (IF ed.preise.kostenlos \/ TruthyNum(ed.preise.preis)
          THEN { "pricing" } ELSE {})
    \cup (IF \/ TruthyStr(ed.metadaten.kontakt.telefon)
             \/ TruthyStr(ed.metadaten.kontakt.email)
             \/ TruthyStr(ed.metadaten.kontakt.website)
          THEN { "contact" } ELSE {})
    \cup (IF ed.erkannte_qr_codes # <<>> \/ ed.erkannte_links # <<>>
          THEN { "sources" } ELSE {})
    \cup (IF ed.kategorie # ANDERE THEN { "category" } ELSE {})

\* quality_score = len(quality_factors) / 7
QualityScore(ed) == (Cardinality(QualityFactors(ed)) * ConfScale) \div 7

\* bug: the quality score replaces the confidence instead of being averaged in
AssessedConfidenceReplaced(confidence, quality_score) ==
    IF quality_score > confidence THEN quality_score ELSE confidence

\* bug: the average is taken also when the quality score is the lower value
AssessedConfidenceAveraged(confidence, quality_score) ==
    Min(ConfScale, (confidence + quality_score) \div 2)

\* the confidence _assess_data_quality leaves in the record
AssessedConfidence(confidence, quality_score) ==
    IF quality_score > confidence
    THEN Min(ConfScale, (confidence + quality_score) \div 2)
    ELSE confidence

\* PosterAnalyzer._assess_data_quality
_assess_data_quality(ed) ==
    [ed EXCEPT !.metadaten.vertrauenswuerdigkeit =
                   AssessedConfidence(@, QualityScore(ed))]

---------------------------------------------------------------------------
(* URL validation: qr_detector.py, web_scraper.py *)

\* what OCR and the QR decoder can read off a poster
UrlC == "https://www.c.de"
UrlNoScheme == "www.c.de"
UrlMalformed == "not-a-url"
\* a .com host whose name contains the characters ".de"
UrlDesign == "https://shop.design.com"

\* validators.url(url)
validators_url(url) == url \in {UrlA, UrlB, UrlC, UrlDesign}

\* any(domain in url.lower() for domain in ['.de', '.at', '.ch']): a substring
\* test on the whole URL
german_domain(url) == url \in {UrlA, UrlC, UrlNoScheme, UrlDesign}

\* url.startswith(('http://', 'https://'))
has_scheme(url) == url \in {UrlA, UrlB, UrlC, UrlDesign}

\* f"https://{url}"
fixed_url(url) ==
    CASE url = UrlNoScheme -> UrlC
      [] url = UrlMalformed -> "https://not-a-url"
      [] OTHER -> url

\* the loop of validate_german_urls, which appends the URL or its repair
RECURSIVE AppendValid(_, _)
AppendValid(valid_urls, urls) ==
    IF urls = <<>> THEN valid_urls
    ELSE LET url == Head(urls)
             kept == IF validators_url(url) THEN Append(valid_urls, url)
                     ELSE IF german_domain(url) /\ ~has_scheme(url)
                               /\ validators_url(fixed_url(url))
                          THEN Append(valid_urls, fixed_url(url))
                          ELSE valid_urls
         IN  AppendValid(kept, Tail(urls))

NotGerman(url) == ~german_domain(url)

\* QRCodeDetector.validate_german_urls: stable sort, German domains first
validate_german_urls(urls) ==
    LET valid_urls == AppendValid(<<>>, urls)
    IN  SelectSeq(valid_urls, german_domain) \o SelectSeq(valid_urls, NotGerman)

\* URL lists detect_all can return for a poster
DetectedUrlLists == { <<>>, <<UrlA>>, <<UrlB, UrlNoScheme, UrlMalformed>> }

---------------------------------------------------------------------------
(* Local Signal Detector: qr_detector.py *)

\* what cv2.imread and the decode library do with the image of a poster
ImageKinds == {"ok", "unreadable", "decode_error"}

\* what pyzbar.decode reads off a readable poster, over all preprocessed
\* variants of the image in the order of the two loops: the same code is
\* read again from a later variant
PayloadLists == { <<>>, <<UrlA>>, <<UrlA, UrlNoScheme>>, <<UrlB, UrlA>>, <<UrlMalformed>>,
                  <<UrlDesign, UrlA>>, <<UrlB, UrlA, UrlB>> }

\* qr_data.append(decoded_data) for every decoded code
AppendEveryRead(qr_data, decoded) == qr_data \o decoded

\* `if decoded_data not in qr_data: qr_data.append(decoded_data)` for every
\* decoded code
RECURSIVE AppendNewReads(_, _)
AppendNewReads(qr_data, decoded) ==
    IF decoded = <<>> THEN qr_data
    ELSE AppendNewReads(AppendIfAbsent(qr_data, Head(decoded)), Tail(decoded))

\* the try block of detect_qr_codes: imread, preprocessing, pyzbar.decode and
\* qr.data.decode of every code
detect_qr_codes_try(image) ==
    IF image.kind = "unreadable" THEN Returned(<<>>)
    ELSE IF image.kind = "decode_error" THEN Raised("Exception")
    ELSE Returned(AppendNewReads(<<>>, image.payloads))

\* a detector without `except Exception`
CaughtNever(exc) == FALSE

\* the handler of detect_qr_codes and detect_urls_ocr: `except Exception`
CaughtByDetector(exc) == TRUE

\* QRCodeDetector.detect_qr_codes
detect_qr_codes(image) ==
    LET attempt == detect_qr_codes_try(image)
    IN  IF attempt.kind = "raise" /\ CaughtByDetector(attempt.exc)
        THEN Returned(<<>>)
        ELSE attempt

\* QRCodeDetector.detect_urls_ocr: OCR is not integrated, it returns []
detect_urls_ocr(image) == Returned(<<>>)

\* QRCodeDetector.extract_urls_from_text on a QR payload: the matches of the
\* URL patterns that validators.url or validators.domain accept, once each
extract_urls_from_text(text) ==
    CASE text = UrlA -> <<UrlA>>
      [] text = UrlB -> <<UrlB>>
      [] text = UrlC -> <<UrlC, UrlNoScheme>>
      [] text = UrlNoScheme -> <<UrlNoScheme>>
      [] text = UrlDesign -> <<UrlDesign>>
      [] OTHER -> <<>>

\* urls.extend(qr_urls) for every decoded payload
RECURSIVE ExtendWithQrUrls(_, _)
ExtendWithQrUrls(urls, qr_codes) ==
    IF qr_codes = <<>> THEN urls
    ELSE ExtendWithQrUrls(urls \o extract_urls_from_text(Head(qr_codes)), Tail(qr_codes))

Range(seq) == {seq[i] : i \in 1..Len(seq)}

\* list(set(urls)): the distinct elements in the iteration order of the set,
\* which for strings changes with the hash seed of the interpreter
SetOrders(urls) ==
    LET S == Range(urls)
    IN  {order \in [1..Cardinality(S) -> S] : Range(order) = S}

\* the urls list of detect_all before duplicates are removed
detected_urls(qr_codes, ocr_urls) == ExtendWithQrUrls(ocr_urls, qr_codes)

\* QRCodeDetector.detect_all: the ways the call can end, one for every
\* iteration order of the set
detect_all(image) ==
    LET qr == detect_qr_codes(image)
        ocr == detect_urls_ocr(image)
    IN  IF qr.kind = "raise" THEN {qr}
        ELSE IF ocr.kind = "raise" THEN {ocr}
        ELSE { Returned([qr_codes |-> qr.value, urls |-> unique_urls]) :
                 unique_urls \in SetOrders(detected_urls(qr.value, ocr.value)) }

\* no evidence yet
NoEvidence == [qr_codes |-> <<>>, urls |-> <<>>, valid_urls |-> <<>>]

\* no analyzer is being constructed and no single poster analyzed
PipelineIdle ==
    /\ analyzer = "none"
    /\ validation = "pending"
    /\ poster = [exists |-> FALSE]
    /\ stage = "start"
    /\ trace = <<>>
    /\ local_evidence = NoEvidence
    /\ poster_record = Nil
    /\ run = 1
    /\ first_result = Nil

\* what one enrichment call ends with
NoReturn == [kind |-> "pending", merged |-> <<>>]

\* no enrichment call is being followed
FetcherIdle ==
    /\ enrich_urls = <<>>
    /\ enrich_pc = "idle"
    /\ session = "none"
    /\ scrape_tasks = <<>>
    /\ scrape_semaphore = [value |-> 0, waiters |-> <<>>]
    /\ get_calls = {}
    /\ get_sessions = {}
    /\ enrich_returns = NoReturn

---------------------------------------------------------------------------
(* asyncio.Semaphore as the two gates use it *)

\* asyncio.Semaphore(n)
NewSemaphore(n) == [value |-> n, waiters |-> <<>>]

\* a gate that never closes
NeverLocked(sem) == FALSE

\* Semaphore.locked(): no permit left, or somebody is already queueing
Locked(sem) == sem.value = 0 \/ sem.waiters # <<>>

\* Semaphore.acquire() by task t: take a permit, or queue up
Acquire(sem, t) ==
    IF Locked(sem)
    THEN [sem EXCEPT !.waiters = Append(@, t)]
    ELSE [sem EXCEPT !.value = @ - 1]

\* leaving the gate without release()
PermitKept(sem) == sem

\* Semaphore.release(): the permit goes to the first waiter if there is one
Release(sem) ==
    IF sem.waiters # <<>>
    THEN [sem EXCEPT !.waiters = Tail(@)]
    ELSE [sem EXCEPT !.value = @ + 1]

\* the task the released permit is handed to, or 0
Woken(sem) == IF sem.waiters # <<>> THEN Head(sem.waiters) ELSE 0

---------------------------------------------------------------------------
(* Page Fetcher: web_scraper.py *)

\* WebScraper.__init__: default of max_concurrent
DefaultScraperConcurrent == 5

\* what a page fetch ends with: an HTTP status, or an exception (network
\* error, timeout, parse error)
Responses == {"200", "203", "404", "exception"}

\* _scrape_single_url: the dictionary is built only when response.status is 200
ReturnsSignal(response) == response = "200"

\* the _scrape_single_url tasks of one _scrape_urls call, after each has taken
\* its first step in list order: a task is past the gate ("inflight", awaiting
\* session.get) or queueing at it ("waiting")
RECURSIVE StartFetches(_, _, _)
StartFetches(tasks, sem, urls) ==
    IF urls = <<>> THEN [tasks |-> tasks, sem |-> sem]
    ELSE LET i == Len(tasks) + 1
             st == IF Locked(sem) THEN "waiting" ELSE "inflight"
         IN  StartFetches(Append(tasks, [url |-> Head(urls), st |-> st,
                                         response |-> "none"]),
                          Acquire(sem, i), Tail(urls))

\* _scrape_urls without its filter: a task for every URL it is given
scrape_all_urls(urls) == urls

\* valid_urls = [url for url in urls if validators.url(url)]
scrape_valid_urls(urls) == SelectSeq(urls, validators_url)

\* _scrape_urls up to its await: filter by validators.url, make the gate, make
\* the tasks
_scrape_urls_start(urls, limit) ==
    StartFetches(<<>>, NewSemaphore(limit), scrape_valid_urls(urls))

\* a task returns: its permit is released to the first waiting task
TaskReturns(tasks, sem, i, response) ==
    LET w == Woken(sem)
    IN  [j \in 1..Len(tasks) |->
            IF j = i THEN [tasks[j] EXCEPT !.st = "done", !.response = response]
            ELSE IF j = w THEN [tasks[j] EXCEPT !.st = "inflight"]
            ELSE tasks[j]]

GaveSignal(task) == ReturnsSignal(task.response)

\* _scrape_urls after gather: the results that are dictionaries, in task order
RECURSIVE UrlsOf(_)
UrlsOf(tasks) ==
    IF tasks = <<>> THEN <<>> ELSE <<Head(tasks).url>> \o UrlsOf(Tail(tasks))

scraped_data_urls(tasks) == UrlsOf(SelectSeq(tasks, GaveSignal))

---------------------------------------------------------------------------
(* Orchestrator, per batch: analyzer.py on the asyncio event loop.          *)
(* A step is what one task does between two suspension points; the model    *)
(* call is a plain function call, so it is part of the step that makes it.  *)

Posters == 1..NumPosters

\* analyze_multiple_posters: default of max_concurrent
DefaultMaxConcurrent == 3

\* limits a WebScraper is constructed with
ScraperLimits == {1, DefaultScraperConcurrent}

\* ClaudeImageAnalyzer.analyze_poster as the pipeline sees it: a record, None,
\* or a request that is never answered
ModelCalls == {"record", "none", "never_returns"}

\* what the task of a pipeline that was about to return value can end with:
\* the value, or an error that `except Exception` does not catch
ReturnValues(value) == {value, "exception"}

\* isinstance(result, EventData)
IsEventData(res) == res = "record"

\* gather(*tasks) without return_exceptions: the first exception is raised
GatherPropagates(results) == \E p \in DOMAIN results : results[p] = "exception"

\* gather(*tasks, return_exceptions=True): exceptions are results
GatherRaises(results) == FALSE

\* the filter loop of analyze_multiple_posters, over results[i..]
RECURSIVE CollectFrom(_, _, _)
CollectFrom(collected, results, i) ==
    IF i > NumPosters THEN collected
    ELSE CollectFrom(IF IsEventData(results[i]) THEN Append(collected, i)
                     ELSE collected,
                     results, i + 1)

NoTasks == [p \in Posters |-> <<>>]

NoFetchGates == [p \in Posters |-> NewSemaphore(0)]

NoSignals == [p \in Posters |-> <<>>]

\* the task of poster p ends with res: `async with semaphore` releases the
\* permit of gate sem, held by p, to the first waiting pipeline
TaskEnds(p, res, sem) ==
    /\ pc' = [q \in Posters |-> IF q = p THEN "done"
                                ELSE IF q = Woken(sem) THEN "admitted"
                                ELSE pc[q]]
    /\ result' = [result EXCEPT ![p] = res]
    /\ semaphore' = Release(sem)
    /\ returned_signals' = [returned_signals EXCEPT ![p] = <<>>]
    /\ UNCHANGED <<fetch, fetch_semaphore, hung>>

\* analyze_poster from its first line to its first suspension point, run by
\* poster p holding a permit of gate sem
analyze_poster(p, sem) ==
    \E exists \in BOOLEAN, urls \in DetectedUrlLists, reply \in ModelCalls,
       scraper_ok \in BOOLEAN :
        LET valid_urls == validate_german_urls(urls)
            started == _scrape_urls_start(valid_urls, scraper_max_concurrent)
        IN  IF ~exists \/ reply = "none"
            THEN TaskEnds(p, "none", sem)
            ELSE IF reply = "never_returns"
            THEN /\ hung' = p
                 /\ pc' = [pc EXCEPT ![p] = "in_model_call"]
                 /\ semaphore' = sem
                 /\ UNCHANGED <<result, fetch, fetch_semaphore, returned_signals>>
            ELSE IF enable_web_scraping /\ valid_urls # <<>> /\ scraper_ok
            THEN /\ pc' = [pc EXCEPT ![p] = IF started.tasks # <<>> THEN "fetching"
                                            ELSE "closing"]
                 /\ fetch' = [fetch EXCEPT ![p] = started.tasks]
                 /\ fetch_semaphore' = [fetch_semaphore EXCEPT ![p] = started.sem]
                 /\ semaphore' = sem
                 /\ UNCHANGED <<result, hung, returned_signals>>
            ELSE \E res \in ReturnValues("record") : TaskEnds(p, res, sem)

Running == batch = "running" /\ hung = 0

\* first step of the task of poster p: `async with semaphore`, and if the gate
\* is open, the pipeline; gather starts the tasks in the order of image_paths
StartPipeline(p) ==
    /\ Running
    /\ pc[p] = "created"
    /\ \A q \in 1..(p - 1) : pc[q] # "created"
    /\ IF Locked(semaphore)
       THEN /\ pc' = [pc EXCEPT ![p] = "waiting"]
            /\ semaphore' = Acquire(semaphore, p)
            /\ UNCHANGED <<result, fetch, fetch_semaphore, hung, returned_signals>>
       ELSE analyze_poster(p, Acquire(semaphore, p))
    /\ UNCHANGED <<max_concurrent, scraper_max_concurrent, enable_web_scraping,
                   batch, event_data_list>>
    /\ UNCHANGED <<exported_files, recordVars, pipelineVars, fetcherVars>>

\* a pipeline that was handed a permit while waiting resumes
ResumePipeline(p) ==
    /\ Running
    /\ pc[p] = "admitted"
    /\ analyze_poster(p, semaphore)
    /\ UNCHANGED <<max_concurrent, scraper_max_concurrent, enable_web_scraping,
                   batch, event_data_list>>
    /\ UNCHANGED <<exported_files, recordVars, pipelineVars, fetcherVars>>

\* the page fetch of task i of poster p ends with a response
FetchReturns(p, i) ==
    /\ Running
    /\ pc[p] = "fetching"
    /\ i \in 1..Len(fetch[p])
    /\ fetch[p][i].st = "inflight"
    /\ \E response \in Responses :
           fetch' = [fetch EXCEPT ![p] =
                        TaskReturns(fetch[p], fetch_semaphore[p], i, response)]
    /\ fetch_semaphore' = [fetch_semaphore EXCEPT ![p] = Release(@)]
    /\ UNCHANGED <<max_concurrent, scraper_max_concurrent, enable_web_scraping,
                   batch, pc, result, semaphore, hung, returned_signals,
                   event_data_list>>
    /\ UNCHANGED <<exported_files, recordVars, pipelineVars, fetcherVars>>

\* all page fetches of poster p are back: _scrape_urls returns the signals,
\* they are merged, and WebScraper.__aexit__ awaits the closing of the session
EnrichmentReturns(p) ==
    /\ Running
    /\ pc[p] = "fetching"
    /\ \A i \in 1..Len(fetch[p]) : fetch[p][i].st = "done"
    /\ returned_signals' = [returned_signals EXCEPT ![p] = scraped_data_urls(fetch[p])]
    /\ pc' = [pc EXCEPT ![p] = "closing"]
    /\ fetch' = [fetch EXCEPT ![p] = <<>>]
    /\ fetch_semaphore' = [fetch_semaphore EXCEPT ![p] = NewSemaphore(0)]
    /\ UNCHANGED <<max_concurrent, scraper_max_concurrent, enable_web_scraping,
                   batch, result, semaphore, hung, event_data_list>>
    /\ UNCHANGED <<exported_files, recordVars, pipelineVars, fetcherVars>>

\* the session of poster p is closed: the quality pass runs and the pipeline
\* returns
FinishPipeline(p) ==
    /\ Running
    /\ pc[p] = "closing"
    /\ \E res \in ReturnValues("record") : TaskEnds(p, res, semaphore)
    /\ UNCHANGED <<max_concurrent, scraper_max_concurrent, enable_web_scraping,
                   batch, event_data_list>>
    /\ UNCHANGED <<exported_files, recordVars, pipelineVars, fetcherVars>>

\* gather is over: analyze_multiple_posters filters the results and returns
BatchReturns ==
    /\ Running
    /\ (\A p \in Posters : pc[p] = "done") \/ GatherRaises(result)
    /\ IF GatherRaises(result)
       THEN /\ batch' = "raised"
            /\ UNCHANGED event_data_list
       ELSE /\ batch' = "returned"
            /\ event_data_list' = CollectFrom(<<>>, result, 1)
    /\ UNCHANGED <<max_concurrent, scraper_max_concurrent, enable_web_scraping,
                   pc, result, semaphore, fetch, fetch_semaphore, hung,
                   returned_signals>>
    /\ UNCHANGED <<exported_files, recordVars, pipelineVars, fetcherVars>>

\* analyze_multiple_posters(image_paths, max_concurrent) is called with
\* NumPosters paths; no task has run yet. --max-concurrent is any int the
\* command line parses, and asyncio.Semaphore accepts every value >= 0
BatchInit ==
    /\ max_concurrent \in (0..MaxGate) \cup {DefaultMaxConcurrent}
    /\ scraper_max_concurrent \in ScraperLimits
    /\ enable_web_scraping \in BOOLEAN
    /\ batch = "running"
    /\ pc = [p \in Posters |-> "created"]
    /\ result = [p \in Posters |-> "pending"]
    /\ semaphore = NewSemaphore(max_concurrent)
    /\ fetch = NoTasks
    /\ fetch_semaphore = NoFetchGates
    /\ hung = 0
    /\ returned_signals = NoSignals
    /\ event_data_list = <<>>
    /\ exported_files = <<>>
    /\ event_data = Nil
    /\ last_call = "none"
    /\ last_count = 0
    /\ merge_errors = 0
    /\ calls = 0
    /\ claude_reply = NoReply
    /\ PipelineIdle
    /\ FetcherIdle

\* the export loop of analyze_batch:
\* `for i, (event, image_path) in enumerate(zip(results, image_paths))`
\* writes event to <stem of image_path>_analysis.json; posters stand for
\* their image paths
ZipWithImagePaths(results) ==
    [i \in 1..Min(Len(results), NumPosters) |-> [image_path |-> i, event |-> results[i]]]

\* analyze_batch of main.py after analyze_multiple_posters has returned: the
\* statistics are printed and, if an output directory was given and there
\* are results, the records are exported
ExportBatch ==
    /\ batch = "returned"
    /\ batch' = "exported"
    /\ \E output_dir \in BOOLEAN :
           exported_files' = IF event_data_list # <<>> /\ output_dir
                             THEN ZipWithImagePaths(event_data_list)
                             ELSE <<>>
    /\ UNCHANGED <<max_concurrent, scraper_max_concurrent, enable_web_scraping,
                   pc, result, semaphore, fetch, fetch_semaphore, hung,
                   returned_signals, event_data_list>>
    /\ UNCHANGED <<recordVars, pipelineVars, fetcherVars>>

BatchNext ==
    \/ \E p \in Posters : StartPipeline(p)
    \/ \E p \in Posters : ResumePipeline(p)
    \/ \E p \in Posters : \E i \in 1..Len(fetch[p]) : FetchReturns(p, i)
    \/ \E p \in Posters : EnrichmentReturns(p)
    \/ \E p \in Posters : FinishPipeline(p)
    \/ BatchReturns
    \/ ExportBatch

BatchSpec == BatchInit /\ [][BatchNext]_vars

\* the event loop runs a task that is ready, and every awaited call that is
\* going to return does return
BatchLiveSpec == BatchInit /\ [][BatchNext]_vars /\ WF_vars(BatchNext)

---------------------------------------------------------------------------
(* Orchestrator, per poster: PosterAnalyzer.__init__ and analyze_poster *)

\* the page behind UrlC
TextC ==
    [cased |-> TRUE,
     price |-> Some([euros |-> 12, cents |-> 0]),
     address |-> Nil,
     email |-> Some("mail@c.de"),
     phone |-> Some("+49 30 7654321"),
     tickets |-> TRUE,
     is_none |-> FALSE]

\* the Scraped Page Signal of a URL whose page answers
PageOf(url) ==
    CASE url = UrlA -> [url |-> UrlA, text_content |-> TextA]
      [] url = UrlB -> [url |-> UrlB, text_content |-> TextB]
      [] OTHER -> [url |-> UrlC, text_content |-> TextC]

\* the signals _scrape_urls returns for urls when the pages in `answering`
\* answer with status 200: in the order of urls
RECURSIVE ScrapedFrom(_, _)
ScrapedFrom(urls, answering) ==
    IF urls = <<>> THEN <<>>
    ELSE (IF Head(urls) \in answering THEN <<PageOf(Head(urls))>> ELSE <<>>)
         \o ScrapedFrom(Tail(urls), answering)

\* the replies of the model one poster is analyzed with
PosterReplies ==
    { [kind |-> "bad_json", obj |-> Nil] }
    \cup { [kind |-> "object",
            obj |-> Some(ReplyObject(Some("Rock Concert"), NoLocation, x, p, NoKontakt,
                                     Fifth(17)))] :
             x \in { y \in ExtraChoices : y.termine.ende # Some(19) },
             p \in { q \in PriceChoices : q.preis = Nil } }

\* which pages answer
AnsweringChoices == { {}, {UrlA, UrlC}, {UrlA, UrlB, UrlC} }

\* everything the collaborators deliver for one poster: the file, the image
\* as the decoder sees it, the reply of the model, the pages and whether the
\* enrichment phase fails
PosterInputs ==
    { [exists |-> e, image |-> [kind |-> k, payloads |-> q], api |-> a, reply |-> r,
       answering |-> w, failure |-> f] :
        e \in BOOLEAN, k \in ImageKinds, q \in PayloadLists, a \in {"ok", "error"},
        r \in PosterReplies, w \in AnsweringChoices, f \in {"none", "fetch"} }

\* PosterAnalyzer.__init__ with the check of validate_api_key removed
ConstructedAnyway(key_valid) == TRUE

\* PosterAnalyzer.__init__: ValueError unless validate_api_key() is true
Constructed(key_valid) == key_valid

\* analyze_poster enriches whatever the settings and the evidence
EnrichAlways(enabled, urls) == TRUE

\* analyze_poster: `if self.enable_web_scraping and valid_urls`
EnrichmentWanted(enabled, urls) == enabled /\ urls # <<>>

\* PosterAnalyzer(claude_api_key): the detector and the extractor are made,
\* then the credential is validated with a request to the model
ConstructAnalyzer ==
    /\ analyzer = "none"
    /\ \E key_valid \in BOOLEAN :
           /\ validation' = IF key_valid THEN "ok" ELSE "failed"
           /\ analyzer' = IF Constructed(key_valid) THEN "ready" ELSE "raised"
    /\ UNCHANGED <<poster, stage, trace, local_evidence, poster_record, run, first_result>>
    /\ UNCHANGED <<recordVars, batchVars, fetcherVars>>

\* analyze_poster, phase 1: the file test, detect_all and validate_german_urls;
\* an exception of detect_all ends the pipeline in the catch-all handler
Detect ==
    /\ analyzer = "ready"
    /\ stage = "start"
    /\ IF ~poster.exists
       THEN /\ stage' = "returned"
            /\ UNCHANGED <<trace, local_evidence>>
       ELSE \E out \in detect_all(poster.image) :
               IF out.kind = "raise"
               THEN /\ stage' = "returned"
                    /\ trace' = Append(trace, "detection_raised")
                    /\ UNCHANGED local_evidence
               ELSE /\ stage' = "detected"
                    /\ trace' = Append(trace, "detection")
                    /\ local_evidence' =
                           [qr_codes |-> out.value.qr_codes,
                            urls |-> out.value.urls,
                            valid_urls |-> validate_german_urls(out.value.urls)]
    /\ poster_record' = Nil
    /\ UNCHANGED <<analyzer, validation, poster, run, first_result>>
    /\ UNCHANGED <<recordVars, batchVars, fetcherVars>>

\* analyze_poster, phase 2: ClaudeImageAnalyzer.analyze_poster, which returns
\* None when the request or the parsing raises
Extract ==
    /\ stage = "detected"
    /\ LET parsed == _parse_response(poster.reply, local_evidence.qr_codes,
                                     local_evidence.valid_urls)
           extracted == IF poster.api = "error" \/ parsed.kind = "raise" THEN Nil
                        ELSE parsed.value
       IN  /\ poster_record' = extracted
           /\ stage' = IF extracted = Nil THEN "returned" ELSE "extracted"
    /\ trace' = Append(trace, "extraction")
    /\ UNCHANGED <<analyzer, validation, poster, local_evidence, run, first_result>>
    /\ UNCHANGED <<recordVars, batchVars, fetcherVars>>

\* analyze_poster, phase 3: _enhance_with_web_scraping
Enrich ==
    /\ stage = "extracted"
    /\ EnrichmentWanted(enable_web_scraping, local_evidence.valid_urls)
    /\ poster_record' =
           Some(_enhance_with_web_scraping(
                    poster_record[1], local_evidence.valid_urls,
                    ScrapedFrom(local_evidence.valid_urls, poster.answering),
                    poster.failure))
    /\ stage' = "enriched"
    /\ trace' = Append(trace, "enrichment")
    /\ UNCHANGED <<analyzer, validation, poster, local_evidence, run, first_result>>
    /\ UNCHANGED <<recordVars, batchVars, fetcherVars>>

\* analyze_poster, phase 4: _assess_data_quality, then the record is returned
Assess ==
    /\ \/ stage = "enriched"
       \/ /\ stage = "extracted"
          /\ ~EnrichmentWanted(enable_web_scraping, local_evidence.valid_urls)
    /\ poster_record' = Some(_assess_data_quality(poster_record[1]))
    /\ stage' = "returned"
    /\ trace' = Append(trace, "quality")
    /\ UNCHANGED <<analyzer, validation, poster, local_evidence, run, first_result>>
    /\ UNCHANGED <<recordVars, batchVars, fetcherVars>>

\* the same poster is analyzed again, by another run of the program (its
\* analyzer is constructed as before), with collaborators that deliver the same
Rerun ==
    /\ stage = "returned"
    /\ run = 1
    /\ run' = 2
    /\ first_result' = poster_record
    /\ stage' = "start"
    /\ trace' = <<>>
    /\ local_evidence' = NoEvidence
    /\ poster_record' = Nil
    /\ UNCHANGED <<analyzer, validation, poster>>
    /\ UNCHANGED <<recordVars, batchVars, fetcherVars>>

PipelineInit ==
    /\ analyzer = "none"
    /\ validation = "pending"
    /\ poster \in PosterInputs
    /\ stage = "start"
    /\ trace = <<>>
    /\ local_evidence = NoEvidence
    /\ poster_record = Nil
    /\ run = 1
    /\ first_result = Nil
    /\ event_data = Nil
    /\ last_call = "none"
    /\ last_count = 0
    /\ merge_errors = 0
    /\ calls = 0
    /\ claude_reply = NoReply
    /\ max_concurrent = DefaultMaxConcurrent
    /\ scraper_max_concurrent = DefaultScraperConcurrent
    /\ enable_web_scraping \in BOOLEAN
    /\ batch = "none"
    /\ pc = [p \in Posters |-> "created"]
    /\ result = [p \in Posters |-> "pending"]
    /\ semaphore = NewSemaphore(DefaultMaxConcurrent)
    /\ fetch = NoTasks
    /\ fetch_semaphore = NoFetchGates
    /\ hung = 0
    /\ returned_signals = NoSignals
    /\ event_data_list = <<>>
    /\ exported_files = <<>>
    /\ FetcherIdle

PipelineNext == ConstructAnalyzer \/ Detect \/ Extract \/ Enrich \/ Assess \/ Rerun

PipelineSpec == PipelineInit /\ [][PipelineNext]_vars

---------------------------------------------------------------------------
(* Orchestrator and Page Fetcher, per enrichment call:                      *)
(* PosterAnalyzer._enhance_with_web_scraping on the asyncio event loop      *)

\* longest list of URLs an enrichment call is given
MaxUrls == 3

\* the URLs a caller can pass: two well-formed ones, one without scheme and
\* one that is no URL at all
EnrichUrlChoices == {UrlA, UrlB, UrlNoScheme, UrlMalformed}

EnrichUrlLists == SeqsUpTo(EnrichUrlChoices, MaxUrls)

\* __aexit__ that closes the session only when the body returned normally
SessionKeptOnError(s, raised) == IF s = "open" /\ ~raised THEN "closed" ELSE s

\* WebScraper.__aexit__: `if self.session: await self.session.close()`,
\* whatever exc_type is
SessionAfterExit(s, raised) == IF s = "open" THEN "closed" ELSE s

\* the URLs whose tasks are awaiting session.get
RECURSIVE InflightUrls(_)
InflightUrls(tasks) ==
    IF tasks = <<>> THEN {}
    ELSE (IF Head(tasks).st = "inflight" THEN {Head(tasks).url} ELSE {})
         \cup InflightUrls(Tail(tasks))

\* the body of `async with WebScraper(...) as scraper` has its return value or
\* its exception: __aexit__ is entered and awaits session.close()
LeaveScraper(merged, raised) ==
    /\ enrich_pc' = "exiting"
    /\ enrich_returns' = [kind |-> IF raised THEN "raised" ELSE "enhanced",
                          merged |-> merged]

\* _enhance_with_web_scraping from its first line to its first suspension
\* point: WebScraper(...), __aenter__, enhance_event_data, _scrape_urls up to
\* gather, and the first step of every task
EnterScraper ==
    /\ enrich_pc = "called"
    /\ \E constructed \in BOOLEAN :
          IF ~constructed
          THEN /\ enrich_pc' = "returned"
               /\ enrich_returns' = [kind |-> "unchanged", merged |-> <<>>]
               /\ UNCHANGED <<session, scrape_tasks, scrape_semaphore, get_calls,
                              get_sessions>>
          ELSE /\ session' = "open"
               /\ LET started == _scrape_urls_start(enrich_urls, scraper_max_concurrent)
                  IN  IF enrich_urls = <<>> \/ started.tasks = <<>>
                      THEN /\ LeaveScraper(<<>>, FALSE)
                           /\ UNCHANGED <<scrape_tasks, scrape_semaphore, get_calls,
                                          get_sessions>>
                      ELSE /\ enrich_pc' = "fetching"
                           /\ scrape_tasks' = started.tasks
                           /\ scrape_semaphore' = started.sem
                           /\ get_calls' = InflightUrls(started.tasks)
                           /\ get_sessions' = {session'}
                           /\ UNCHANGED enrich_returns
    /\ UNCHANGED enrich_urls
    /\ UNCHANGED <<recordVars, batchVars, pipelineVars>>

\* the page fetch of task i ends with a response; the task it hands its
\* permit to calls session.get
FetchEnds(i) ==
    /\ enrich_pc = "fetching"
    /\ scrape_tasks[i].st = "inflight"
    /\ \E response \in Responses :
           scrape_tasks' = TaskReturns(scrape_tasks, scrape_semaphore, i, response)
    /\ scrape_semaphore' = Release(scrape_semaphore)
    /\ get_calls' = get_calls \cup InflightUrls(scrape_tasks')
    /\ get_sessions' = IF Woken(scrape_semaphore) # 0
                       THEN get_sessions \cup {session} ELSE get_sessions
    /\ UNCHANGED <<enrich_urls, enrich_pc, session, enrich_returns>>
    /\ UNCHANGED <<recordVars, batchVars, pipelineVars>>

\* gather is over: _scrape_urls returns the signals, _merge_scraped_data
\* merges them and the confidence is logged; any of it may raise
GatherReturns ==
    /\ enrich_pc = "fetching"
    /\ \A i \in 1..Len(scrape_tasks) : scrape_tasks[i].st = "done"
    /\ \E raised \in BOOLEAN : LeaveScraper(scraped_data_urls(scrape_tasks), raised)
    /\ UNCHANGED <<enrich_urls, session, scrape_tasks, scrape_semaphore, get_calls,
                   get_sessions>>
    /\ UNCHANGED <<recordVars, batchVars, pipelineVars>>

\* session.close() is done: the call returns the enhanced record, or from
\* `except Exception` the record it was given
SessionCloses ==
    /\ enrich_pc = "exiting"
    /\ session' = SessionAfterExit(session, enrich_returns.kind = "raised")
    /\ enrich_pc' = "returned"
    /\ UNCHANGED <<enrich_urls, scrape_tasks, scrape_semaphore, get_calls,
                   get_sessions, enrich_returns>>
    /\ UNCHANGED <<recordVars, batchVars, pipelineVars>>

\* _enhance_with_web_scraping(event_data, urls) has been called
FetcherInit ==
    /\ enrich_urls \in EnrichUrlLists
    /\ enrich_pc = "called"
    /\ session = "none"
    /\ scrape_tasks = <<>>
    /\ scrape_semaphore = NewSemaphore(0)
    /\ get_calls = {}
    /\ get_sessions = {}
    /\ enrich_returns = NoReturn
    /\ event_data = Nil
    /\ last_call = "none"
    /\ last_count = 0
    /\ merge_errors = 0
    /\ calls = 0
    /\ claude_reply = NoReply
    /\ max_concurrent = DefaultMaxConcurrent
    /\ scraper_max_concurrent \in ScraperLimits
    /\ enable_web_scraping = TRUE
    /\ batch = "none"
    /\ pc = [p \in Posters |-> "created"]
    /\ result = [p \in Posters |-> "pending"]
    /\ semaphore = NewSemaphore(DefaultMaxConcurrent)
    /\ fetch = NoTasks
    /\ fetch_semaphore = NoFetchGates
    /\ hung = 0
    /\ returned_signals = NoSignals
    /\ event_data_list = <<>>
    /\ exported_files = <<>>
    /\ PipelineIdle

FetcherNext ==
    \/ EnterScraper
    \/ \E i \in 1..Len(scrape_tasks) : FetchEnds(i)
    \/ GatherReturns
    \/ SessionCloses

FetcherSpec == FetcherInit /\ [][FetcherNext]_vars

---------------------------------------------------------------------------
(* Spec: the life of one record *)

Init ==
    /\ event_data = Nil
    /\ last_call = "none"
    /\ last_count = 0
    /\ merge_errors = 0
    /\ calls = 0
    /\ claude_reply = NoReply
    /\ max_concurrent = DefaultMaxConcurrent
    /\ scraper_max_concurrent = DefaultScraperConcurrent
    /\ enable_web_scraping = TRUE
    /\ batch = "none"
    /\ pc = [p \in Posters |-> "created"]
    /\ result = [p \in Posters |-> "pending"]
    /\ semaphore = NewSemaphore(DefaultMaxConcurrent)
    /\ fetch = NoTasks
    /\ fetch_semaphore = NoFetchGates
    /\ hung = 0
    /\ returned_signals = NoSignals
    /\ event_data_list = <<>>
    /\ exported_files = <<>>
    /\ PipelineIdle
    /\ FetcherIdle

\* ClaudeImageAnalyzer.analyze_poster: the reply of the model is parsed
ExtractRecord ==
    /\ last_call = "none"
    /\ \E reply \in ReplyTexts, detected \in DetectedChoices :
           LET parsed == _parse_response(reply, detected.qr_codes, detected.urls)
           IN  /\ claude_reply' = reply
               /\ event_data' = parsed.value
               /\ last_call' = IF parsed.kind = "raise" THEN "parse_raised"
                               ELSE "parse"
    /\ UNCHANGED <<last_count, merge_errors, calls>>
    /\ UNCHANGED <<batchVars, pipelineVars, fetcherVars>>

\* the signal lists _scrape_urls can have returned when the failure strikes:
\* none at all if the scraper or the fetch phase failed
FetchedBefore(failure) ==
    IF failure \in {"construct", "fetch"} THEN {<<>>}
    ELSE SignalLists \cup FailingSignalLists

\* one call of _enhance_with_web_scraping on the record
Enhance ==
    /\ event_data # Nil
    /\ calls < MaxCalls
    /\ \E failure \in Failures : \E scraped_data \in FetchedBefore(failure) :
           /\ event_data' = Some(_enhance_with_web_scraping(
                                     event_data[1], <<UrlA>>, scraped_data, failure))
           /\ last_count' = IF failure = "none" THEN Len(scraped_data) ELSE 0
           /\ merge_errors' = IF failure = "none"
                              THEN Len(SelectSeq(scraped_data, MergeRaises)) ELSE 0
           /\ last_call' = IF failure = "none" THEN "enhance" ELSE "enhance_failed"
    /\ calls' = calls + 1
    /\ claude_reply' = NoReply
    /\ UNCHANGED <<batchVars, pipelineVars, fetcherVars>>

\* one call of _assess_data_quality on the record
AssessQuality ==
    /\ event_data # Nil
    /\ calls < MaxCalls
    /\ event_data' = Some(_assess_data_quality(event_data[1]))
    /\ last_call' = "quality"
    /\ last_count' = 0
    /\ merge_errors' = 0
    /\ calls' = calls + 1
    /\ claude_reply' = NoReply
    /\ UNCHANGED <<batchVars, pipelineVars, fetcherVars>>

Next == ExtractRecord \/ Enhance \/ AssessQuality

Spec == Init /\ [][Next]_vars

---------------------------------------------------------------------------
(* Properties of the record (checked under Spec) *)

Confidence(ed) == ed.metadaten.vertrauenswuerdigkeit

\* C1: in every reachable state the record's confidence lies in [0.0, 1.0],
\* also after repeated enrichment calls and quality passes.
C1_ConfidenceInUnitInterval ==
    event_data # Nil =>
        (Confidence(event_data[1]) >= 0 /\ Confidence(event_data[1]) <= ConfScale)

\* a second call in a row, after an enrichment, left confidence at exactly 1.0
C1_Witness ==
    /\ event_data # Nil
    /\ calls = MaxCalls
    /\ last_call = "enhance"
    /\ last_count >= 1
    /\ Confidence(event_data[1]) = ConfScale

\* the seven fields the merge rules fill
EnrichedFields(ed) ==
    [preis |-> ed.preise.preis,
     adresse |-> ed.ort.adresse,
     postleitzahl |-> ed.ort.postleitzahl,
     stadt |-> ed.ort.stadt,
     email |-> ed.metadaten.kontakt.email,
     telefon |-> ed.metadaten.kontakt.telefon,
     website |-> ed.metadaten.kontakt.website]

NonNullKept(old, new) ==
    \A f \in DOMAIN EnrichedFields(old) :
        EnrichedFields(old)[f] # Nil => EnrichedFields(new)[f] = EnrichedFields(old)[f]

\* C2: an enrichment call never overwrites an existing value: each of price,
\* address, postal code, city, e-mail, phone and website that is non-null before
\* the call has the same value in the record the call returns.
C2_NonNullNeverOverwritten ==
    [][last_call' = "enhance" => NonNullKept(event_data[1], event_data'[1])]_vars

C8_Stated(c, n) ==
    IF n = 0 THEN c
    ELSE LET bonus == IF 5 * n * ConfScale <= 20 * ConfScale
                      THEN (n * ConfScale) \div 20 ELSE ConfScale \div 5
         IN  IF c + bonus >= ConfScale THEN ConfScale ELSE c + bonus

\* C8: one enrichment call over n signals sets confidence to
\* min(1.0, original + min(0.2, 0.05 * n)); the bonus never exceeds 0.2, and
\* with n = 0 confidence is unchanged.
C8_BonusOncePerCall ==
    [][last_call' = "enhance" =>
        /\ Confidence(event_data'[1]) = C8_Stated(Confidence(event_data[1]), last_count')
        /\ 5 * (Confidence(event_data'[1]) - Confidence(event_data[1])) <= ConfScale]_vars

\* five or more signals were merged into a record of confidence 0.0: the
\* capped bonus 0.2 is the whole confidence
C8_Witness ==
    /\ event_data # Nil
    /\ last_call = "enhance"
    /\ calls = 1
    /\ last_count >= 5
    /\ 5 * Confidence(event_data[1]) = ConfScale

\* the number k of completeness factors that hold, counted factor by factor
C9_FactorCount(ed) ==
    (IF ed.veranstaltungsname # "" THEN 1 ELSE 0)
    + (IF TruthyStr(ed.ort.veranstaltungsort) \/ TruthyAddr(ed.ort.adresse) THEN 1 ELSE 0)
    + (IF ed.termine.beginn # Nil THEN 1 ELSE 0)
    + (IF ed.preise.kostenlos \/ TruthyNum(ed.preise.preis) THEN 1 ELSE 0)
    + (IF \E ch \in { "telefon", "email", "website" } :
              TruthyStr(ed.metadaten.kontakt[ch]) THEN 1 ELSE 0)
    + (IF Len(ed.erkannte_qr_codes) + Len(ed.erkannte_links) > 0 THEN 1 ELSE 0)
    + (IF ed.kategorie = ANDERE THEN 0 ELSE 1)

\* a record with only a name and the default category
C9_Minimal(ed) ==
    /\ ed.ort = NoLocation
    /\ ed.termine.beginn = Nil
    /\ ed.preise = NoPrice
    /\ ed.metadaten.kontakt = NoKontakt
    /\ ed.erkannte_qr_codes = <<>> /\ ed.erkannte_links = <<>>
    /\ ed.kategorie = ANDERE

\* C9: the quality pass computes quality = k/7; if quality > confidence the
\* confidence becomes (confidence + quality)/2, otherwise it is unchanged, and
\* nothing else in the record changes.  A record with only a name and the
\* default category has quality 1/7.
C9_QualityPass ==
    [][last_call' = "quality" =>
        LET old == event_data[1]
            new == event_data'[1]
            k == C9_FactorCount(old)
            c == Confidence(old)
        IN  /\ C9_Minimal(old) => k = 1
            /\ 7 * c < k * ConfScale => 14 * Confidence(new) = 7 * c + k * ConfScale
            /\ 7 * c >= k * ConfScale => Confidence(new) = c
            /\ new = [old EXCEPT !.metadaten.vertrauenswuerdigkeit = Confidence(new)]]_vars

\* the quality pass has averaged the confidence 0.0 of a minimal record with
\* its quality 1/7
C9_Witness ==
    /\ event_data # Nil
    /\ last_call = "quality"
    /\ C9_Minimal(event_data[1])
    /\ 14 * Confidence(event_data[1]) = ConfScale

\* the data fields of the merge
DataFields(ed) ==
    [preis |-> ed.preise.preis,
     kostenlos |-> ed.preise.kostenlos,
     adresse |-> ed.ort.adresse,
     postleitzahl |-> ed.ort.postleitzahl,
     stadt |-> ed.ort.stadt,
     email |-> ed.metadaten.kontakt.email,
     telefon |-> ed.metadaten.kontakt.telefon,
     website |-> ed.metadaten.kontakt.website,
     online_links |-> ed.metadaten.ticketinfo.online_links,
     quellen |-> ed.metadaten.quellen]

\* C10: the merge is idempotent per field: for every record r and signal list
\* S, merging S into merge(r, S) again changes no data field.
C10_MergeIdempotent ==
    event_data # Nil =>
        \A S \in SeqsUpTo(Signals, MaxRemerge) :
            LET once == _merge_scraped_data(event_data[1], S)
            IN  DataFields(_merge_scraped_data(once, S)) = DataFields(once)

\* a record that an enrichment call has already filled, and a signal list
\* whose first merge into it still adds a source
C10_Witness ==
    /\ event_data # Nil
    /\ last_call = "enhance"
    /\ last_count >= 1
    /\ \E S \in SeqsUpTo(Signals, MaxRemerge) :
           DataFields(_merge_scraped_data(event_data[1], S)) # DataFields(event_data[1])

---------------------------------------------------------------------------
(* Properties of the batch (checked under BatchSpec) *)

\* the posters whose pipeline returned a record
Successful == {p \in Posters : result[p] = "record"}

\* C3: analyze_multiple_posters raises nothing to its caller, and when it
\* returns, every pipeline has run to completion and the returned list holds
\* exactly the posters whose pipeline returned a record, once each, in the
\* order of image_paths; a poster that returned None or raised adds nothing.
C3_BatchReturnsSuccessfulRecords ==
    /\ batch # "raised"
    /\ batch = "returned" =>
           /\ \A p \in Posters : pc[p] = "done"
           /\ Len(event_data_list) = Cardinality(Successful)
           /\ \A i \in 1..Len(event_data_list) : event_data_list[i] \in Successful
           /\ \A i, j \in 1..Len(event_data_list) :
                  i < j => event_data_list[i] < event_data_list[j]

\* a returned batch in which poster 2 raised, poster 1 returned a record and
\* another poster returned None
C3_Witness ==
    /\ batch = "returned"
    /\ result[1] = "record"
    /\ result[2] = "exception"
    /\ \E p \in Posters : result[p] = "none"
    /\ event_data_list = <<1>>

\* the pipelines holding a permit of the batch gate
InsideBatchGate == {p \in Posters : pc[p] \in {"admitted", "in_model_call",
                                                "fetching", "closing"}}

\* the page fetches of poster p that are past the fetch gate
InsideFetchGate(p) == {i \in 1..Len(fetch[p]) : fetch[p][i].st = "inflight"}

\* C4: at every moment at most max_concurrent pipelines are inside the batch
\* gate, and within each enrichment call at most the scraper's max_concurrent
\* page fetches are inside the fetch gate.
C4_GatesBoundConcurrency ==
    /\ Cardinality(InsideBatchGate) <= max_concurrent
    /\ \A p \in Posters : Cardinality(InsideFetchGate(p)) <= scraper_max_concurrent

\* both gates are full and each has somebody queueing at it
C4_Witness ==
    /\ Cardinality(InsideBatchGate) = max_concurrent
    /\ \E p \in Posters : pc[p] = "waiting"
    /\ \E p \in Posters :
           /\ Cardinality(InsideFetchGate(p)) = scraper_max_concurrent
           /\ \E i \in 1..Len(fetch[p]) : fetch[p][i].st = "waiting"

\* C5: with max_concurrent at least 2, a model invocation that never returns
\* blocks only its own slot: as long as another poster's pipeline is not
\* done, the event loop can still take a step.
C5_StuckCallBlocksOnlyItsSlot ==
    ( /\ max_concurrent >= 2
      /\ hung # 0
      /\ \E q \in Posters \ {hung} : pc[q] # "done" )
    => ENABLED BatchNext

\* the statuses of the 2xx class among Responses
Answered2xx(task) == task.response \in {"200", "203"}

\* C6: when _scrape_urls returns, it returns a signal for exactly the fetched
\* URLs that were answered with a 2xx status and parsed without exception,
\* in the order of the URLs.
C6_SignalForEvery2xx ==
    [][ \A p \in Posters :
            (pc[p] = "fetching" /\ pc'[p] = "closing")
            => returned_signals'[p] = UrlsOf(SelectSeq(fetch[p], Answered2xx)) ]_vars

---------------------------------------------------------------------------
(* Properties of the Primary Extractor (checked under Spec) *)

\* the decoded object has no event name, or an empty one
ReplyLacksName(d) == d.veranstaltungsname = Nil \/ d.veranstaltungsname = Some("")

\* the decoded object breaks a rule of the record schema
ReplyViolatesSchema(d) ==
    \/ /\ d.ort.postleitzahl # Nil
       /\ d.ort.postleitzahl[1] # <<>>
       /\ \/ Len(d.ort.postleitzahl[1]) # 5
          \/ \E i \in 1..Len(d.ort.postleitzahl[1]) : d.ort.postleitzahl[1][i] \notin Digits
    \/ d.termine.beginn # Nil /\ d.termine.ende # Nil
       /\ d.termine.ende[1] < d.termine.beginn[1]
    \/ d.preise.preis # Nil /\ d.preise.preis[1] < 0
    \/ d.metadaten.vertrauenswuerdigkeit < 0
    \/ d.metadaten.vertrauenswuerdigkeit > ConfScale

\* C11: _parse_response never raises to its caller, and it returns nothing
\* whenever the reply has no '{'..'}' slice, the slice is not valid JSON, the
\* decoded object lacks a non-empty event name, or the object violates the
\* record schema.
C11_ParseNeverRaises ==
    /\ last_call # "parse_raised"
    /\ ( /\ last_call = "parse"
         /\ \/ claude_reply.kind \in {"no_json", "bad_json"}
            \/ /\ claude_reply.kind = "object"
               /\ \/ ReplyLacksName(claude_reply.obj[1])
                  \/ ReplyViolatesSchema(claude_reply.obj[1]) )
       => event_data = Nil

\* a reply with a name whose object violates the schema has been parsed
C11_Witness ==
    /\ last_call = "parse"
    /\ claude_reply.kind = "object"
    /\ ~ReplyLacksName(claude_reply.obj[1])
    /\ ReplyViolatesSchema(claude_reply.obj[1])
    /\ event_data = Nil

---------------------------------------------------------------------------
(* Properties of one poster's pipeline (checked under PipelineSpec) *)

\* some step of analyze_poster has been executed
PipelineStepTaken == trace # <<>> \/ stage # "start" \/ run > 1

\* C12: credential validation precedes all work: when the validation request
\* fails the construction of PosterAnalyzer raises and no pipeline step is
\* ever executed; a poster is processed only after a successful validation.
C12_ValidationPrecedesWork ==
    /\ validation = "failed" => (analyzer = "raised" /\ ~PipelineStepTaken)
    /\ PipelineStepTaken => validation = "ok"

\* the validation request failed and the constructor raised
C12_Witness ==
    /\ validation = "failed"
    /\ analyzer = "raised"
    /\ poster.exists

---------------------------------------------------------------------------
(* Invariants of the record (checked under Spec) *)

NoDuplicates(seq) == \A i, j \in 1..Len(seq) : seq[i] = seq[j] => i = j

\* C13: in every reachable record state, from construction by the Primary
\* Extractor through any number of enrichment calls, the source list
\* (metadaten.quellen) contains no entry twice.
C13_NoDuplicateSources ==
    event_data # Nil => NoDuplicates(event_data[1].metadaten.quellen)

\* C14: every record that exists has a non-empty event name: the Primary
\* Extractor produces no record with an empty name, and no later step (merge,
\* quality pass) changes or clears the name.
C14_NameNeverEmpty ==
    [][ /\ event_data' # Nil => event_data'[1].veranstaltungsname # ""
        /\ (event_data # Nil /\ event_data' # Nil)
           => event_data'[1].veranstaltungsname = event_data[1].veranstaltungsname ]_vars

\* a record that went through a merge of at least one signal
C14_Witness ==
    /\ event_data # Nil
    /\ last_call = "enhance"
    /\ last_count >= 2
    /\ event_data[1].veranstaltungsname = "Rock Concert"

\* C15: in every reachable record state the postal code, when set, is
\* exactly five digit characters.
C15_PostalCodeFiveDigits ==
    (event_data # Nil /\ event_data[1].ort.postleitzahl # Nil)
    => /\ Len(event_data[1].ort.postleitzahl[1]) = 5
       /\ \A i \in 1..5 : event_data[1].ort.postleitzahl[1][i] \in Digits

---------------------------------------------------------------------------
(* Properties of one poster's pipeline, continued (checked under PipelineSpec) *)

\* C16: a poster's result is deterministic: a second run of the pipeline on
\* the same image, with collaborators that return the same outputs, returns
\* a record equal to the first in every field, the order of its lists
\* included.
C16_ResultDeterministic ==
    (run = 2 /\ stage = "returned") => poster_record = first_result

\* C17: the Local Signal Detector never raises: when image loading or the
\* decode library fails, detection returns two empty lists and the pipeline
\* goes on to the Primary Extractor with no local evidence.
C17_DetectorNeverRaises ==
    /\ \A i \in 1..Len(trace) : trace[i] # "detection_raised"
    /\ (stage = "detected" /\ poster.image.kind # "ok")
       => /\ local_evidence = NoEvidence
          /\ ENABLED Extract
    /\ (poster.exists /\ poster.image.kind # "ok" /\ stage = "returned")
       => \E i \in 1..Len(trace) : trace[i] = "extraction"

\* the decode library failed and the extractor has run on the poster
C17_Witness ==
    /\ poster.image.kind = "decode_error"
    /\ trace = <<"detection", "extraction">>
    /\ local_evidence = NoEvidence
    /\ poster_record # Nil

\* C18: for every poster whose pipeline returns a record the steps ran in
\* the order detection, primary extraction, enrichment (only if enabled and
\* at least one valid URL was detected), quality pass; the quality pass ran
\* exactly once, as the last step.
C18_PipelineOrder ==
    (stage = "returned" /\ poster_record # Nil)
    => trace = IF enable_web_scraping /\ Len(local_evidence.valid_urls) >= 1
               THEN <<"detection", "extraction", "enrichment", "quality">>
               ELSE <<"detection", "extraction", "quality">>

\* a record returned after an enrichment that merged a source
C18_Witness ==
    /\ stage = "returned"
    /\ poster_record # Nil
    /\ trace = <<"detection", "extraction", "enrichment", "quality">>
    /\ poster_record[1].metadaten.quellen # <<>>

---------------------------------------------------------------------------
(* Properties of the batch, continued (checked under BatchSpec) *)

\* C19: both gates release after work on every exit path: when the batch
\* has returned every permit of the batch gate is available again, and when
\* an enrichment call returns every permit of its fetch gate is available
\* again, whether the pipelines and fetches succeeded, returned nothing or
\* raised.
C19_GatesReleaseOnEveryPath ==
    [][ /\ batch' = "returned"
           => (semaphore'.value = max_concurrent /\ semaphore'.waiters = <<>>)
        /\ \A p \in Posters :
               (pc[p] = "fetching" /\ pc'[p] = "closing")
               => /\ fetch_semaphore[p].value = scraper_max_concurrent
                  /\ fetch_semaphore[p].waiters = <<>> ]_vars

\* a batch that went through a single permit has returned after pipelines
\* that ended with a record, with None and with an exception
C19_Witness ==
    /\ batch = "returned"
    /\ max_concurrent = 1
    /\ \E p \in Posters : result[p] = "record"
    /\ \E p \in Posters : result[p] = "none"
    /\ \E p \in Posters : result[p] = "exception"
    /\ semaphore.value = 1

---------------------------------------------------------------------------
(* Properties of the merge rules (checked under Spec) *)

AddressFields(ed) == <<ed.ort.adresse, ed.ort.postleitzahl, ed.ort.stadt>>

\* C20: when the record's street address is unset and the page text of a
\* signal contains a German address, merging the signal populates address,
\* postal code and city together from that match; otherwise the merge
\* changes none of the three.
C20_AddressAllOrNone ==
    event_data # Nil =>
        \A signal \in Signals :
            LET merged == _merge_scraped_data(event_data[1], <<signal>>)
                found == signal.text_content.address
            IN  IF event_data[1].ort.adresse = Nil /\ found # Nil
                THEN AddressFields(merged) =
                         <<Some(<<found[1].street, found[1].number>>),
                           Some(found[1].plz), Some(found[1].city)>>
                ELSE AddressFields(merged) = AddressFields(event_data[1])

---------------------------------------------------------------------------
(* Properties of the signal order (checked under Spec) *)

\* the fields a merge rule fills when they are empty
FilledFields(ed) ==
    [preis |-> ed.preise.preis,
     adresse |-> ed.ort.adresse,
     email |-> ed.metadaten.kontakt.email,
     telefon |-> ed.metadaten.kontakt.telefon,
     website |-> ed.metadaten.kontakt.website]

\* C21: across the signals of one enrichment call the earliest signal that
\* can supply an empty field supplies it: a field filled from signal i is
\* never replaced by a value from a later signal j > i.
C21_EarliestSignalWins ==
    event_data # Nil =>
        \A earlier \in Signals, later \in Signals :
            LET before == FilledFields(event_data[1])
                after_earlier == FilledFields(MergeAll(event_data[1], <<earlier>>))
                after_later == FilledFields(MergeAll(event_data[1], <<earlier, later>>))
            IN  \A f \in DOMAIN before :
                    after_earlier[f] # before[f] => after_later[f] = after_earlier[f]

---------------------------------------------------------------------------
(* Properties of the evidence fields (checked under Spec) *)

\* C22: for every parsed reply and every pair of detected lists passed in,
\* the record's evidence fields equal the detected lists: erkannte_qr_codes
\* is the detected code list and erkannte_links the detected URL list,
\* overriding keys of the same name in the model's JSON.
C22_EvidenceIsDetected ==
    claude_reply.kind = "object" =>
        \A detected \in DetectedChoices :
            LET parsed == _parse_response(claude_reply, detected.qr_codes, detected.urls)
            IN  parsed.value # Nil =>
                    /\ parsed.value[1].erkannte_qr_codes = detected.qr_codes
                    /\ parsed.value[1].erkannte_links = detected.urls

---------------------------------------------------------------------------
(* Properties of one enrichment call (checked under FetcherSpec) *)

\* no URL of the list is a well-formed absolute URL
NoneWellFormed(urls) == \A i \in 1..Len(urls) : ~validators_url(urls[i])

\* C23: no network attempt is ever made for a URL that is not a well-formed
\* absolute URL: no fetch task exists for one and session.get is never
\* called with one, and a call given only such URLs merges no signal.
C23_NoFetchOfMalformedUrl ==
    /\ \A i \in 1..Len(scrape_tasks) : validators_url(scrape_tasks[i].url)
    /\ \A url \in get_calls : validators_url(url)
    /\ (enrich_pc = "returned" /\ NoneWellFormed(enrich_urls)) =>
           /\ get_calls = {}
           /\ enrich_returns.merged = <<>>

\* a returned call whose list held a URL that is not well-formed next to one
\* that was fetched and gave a signal
C23_Witness ==
    /\ enrich_pc = "returned"
    /\ \E i \in 1..Len(enrich_urls) : ~validators_url(enrich_urls[i])
    /\ get_calls # {}
    /\ enrich_returns.merged # <<>>

\* C24: the fetcher's session is scoped to one enrichment call: it is open
\* from the start of the call, every fetch of the call happens while it is
\* open, and it is closed when the call has ended, also when fetching or
\* merging raised.
C24_SessionScopedToCall ==
    /\ get_sessions \subseteq {"open"}
    /\ enrich_pc \in {"fetching", "exiting"} => session = "open"
    /\ \A i \in 1..Len(scrape_tasks) :
           scrape_tasks[i].st = "inflight" => session = "open"
    /\ enrich_pc = "returned" => session \in {"none", "closed"}
    /\ (enrich_pc = "returned" /\ enrich_returns.kind # "unchanged") =>
           session = "closed"

\* a call that fetched a page, raised afterwards and has returned
C24_Witness ==
    /\ enrich_pc = "returned"
    /\ enrich_returns.kind = "raised"
    /\ get_calls # {}
    /\ session = "closed"

---------------------------------------------------------------------------
(* Properties of the URL validation (checked under PipelineSpec) *)

\* the host of the URL lies in a German-speaking region: it ends in .de, .at
\* or .ch
GermanRegion(url) == url \in {UrlA, UrlC}

OtherRegion(url) == ~GermanRegion(url)

\* C25: validate_german_urls returns the accepted URLs ordered so that every
\* German-region (.de/.at/.ch) URL precedes every other URL, and within each
\* of the two groups the URLs keep their relative input order.
C25_GermanUrlsFirstStable ==
    stage = "detected" =>
        LET accepted == AppendValid(<<>>, local_evidence.urls)
        IN  local_evidence.valid_urls =
                SelectSeq(accepted, GermanRegion) \o SelectSeq(accepted, OtherRegion)

---------------------------------------------------------------------------
(* Properties of the code detection (checked under PipelineSpec) *)

\* the place of the first occurrence of x in seq
FirstIndex(seq, x) == CHOOSE i \in 1..Len(seq) :
                          seq[i] = x /\ \A j \in 1..(i - 1) : seq[j] # x

\* C26: detect_qr_codes merges the decode results of all preprocessing
\* variants and returns each distinct payload exactly once, in the order of
\* first detection.
C26_PayloadsOnceInFirstOrder ==
    (stage = "detected" /\ poster.image.kind = "ok") =>
        LET decoded == poster.image.payloads
            qr_data == local_evidence.qr_codes
        IN  /\ Range(qr_data) = Range(decoded)
            /\ NoDuplicates(qr_data)
            /\ \A i \in 1..Len(qr_data) : \A j \in (i + 1)..Len(qr_data) :
                   FirstIndex(decoded, qr_data[i]) < FirstIndex(decoded, qr_data[j])

\* a poster on which the first payload is read again from a later variant
C26_Witness ==
    /\ stage = "detected"
    /\ poster.image.kind = "ok"
    /\ Len(poster.image.payloads) > Len(local_evidence.qr_codes)
    /\ Len(local_evidence.qr_codes) = 2

---------------------------------------------------------------------------
(* Properties of the confidence along a pipeline (checked under Spec) *)

\* C27: confidence never decreases along a pipeline: the record an
\* enrichment call returns has confidence >= the input record's, strictly
\* greater when at least one signal was merged and the input confidence was
\* below 1.0, and the quality pass leaves confidence >= its value before.
C27_ConfidenceNeverDecreases ==
    [][ (event_data # Nil /\ event_data' # Nil) =>
            /\ Confidence(event_data'[1]) >= Confidence(event_data[1])
            /\ (/\ last_call' = "enhance"
                /\ last_count' >= 1
                /\ Confidence(event_data[1]) < ConfScale)
               => Confidence(event_data'[1]) > Confidence(event_data[1]) ]_vars

\* an enrichment call merged a signal into a record whose confidence a
\* quality pass had raised before, and raised it again
C27_Witness ==
    /\ event_data # Nil
    /\ last_call = "enhance"
    /\ last_count >= 1
    /\ calls = 2
    /\ Confidence(event_data[1]) < ConfScale
    /\ 20 * Confidence(event_data[1]) > 3 * ConfScale

---------------------------------------------------------------------------
(* Properties of the batch export (checked under BatchSpec) *)

\* C28: in batch export every record is written to the file named after the
\* image it was extracted from, also when some posters of the batch failed:
\* never under the name of another poster's image.
C28_ExportedUnderOwnName ==
    batch = "exported" =>
        \A i \in 1..Len(exported_files) :
            exported_files[i].event = exported_files[i].image_path

---------------------------------------------------------------------------
(* Termination of the batch (checked under BatchLiveSpec) *)

\* the pipelines that have been admitted through the batch gate
Admitted == {p \in Posters : pc[p] \notin {"created", "waiting"}}

\* C29: for every concurrency limit the command line accepts, max_concurrent
\* = 0 and limits larger than the batch included, if every call of every
\* pipeline returns then every poster is eventually admitted through the
\* gate and analyze_multiple_posters eventually returns.
C29_BatchEventuallyReturns ==
    [](hung = 0) => /\ <>(Admitted = Posters)
                    /\ <>(batch # "running")

---------------------------------------------------------------------------
(* Properties of a failing merge (checked under Spec) *)

MergesCleanly(data) == ~MergeRaises(data)

\* C30: an exception raised while merging one signal is contained: no
\* exception escapes _merge_scraped_data, every later signal in the list is
\* still merged, and the failed signal's URL is not appended to the source
\* list, while the signal is still counted in the confidence bonus.
C30_MergeErrorContained ==
    event_data # Nil =>
        \A S \in FailingSignalLists :
            LET merged == _merge_scraped_data(event_data[1], S)
                sound == SelectSeq(S, MergesCleanly)
            IN  /\ IsRecord(merged)
                /\ DataFields(merged) = DataFields(MergeAll(event_data[1], sound))
                /\ ~Contains(merged.metadaten.quellen, SignalNoText.url)
                /\ Confidence(merged) =
                       BoostedConfidence(Confidence(event_data[1]), Len(S))

\* a record into which a list of three signals was merged whose second one
\* failed: the pages before and after it gave the record its two sources, and
\* all three signals were counted
C30_Witness ==
    /\ event_data # Nil
    /\ last_call = "enhance"
    /\ last_count = 3
    /\ merge_errors = 1
    /\ event_data[1].preise.preis # Nil
    /\ Len(event_data[1].metadaten.quellen) = 2
    /\ ~Contains(event_data[1].metadaten.quellen, SignalNoText.url)

====
